---- MODULE Spec2Model ----
(***************************************************************************)
(* Expression interpreters of the python-design-patterns repository:       *)
(*   - the two ExpressionProcessor.calculate implementations of            *)
(*     src/test.py (token based, lines 14-75, and regex based, lines       *)
(*     89-161);                                                            *)
(*   - lex / parse / BinaryExpression.value of                             *)
(*     src/behavioural-patterns/interpreter-pattern.py (lines 25-154).     *)
(*                                                                         *)
(* A Python string is a sequence of one-character strings.  Indices are    *)
(* the 0-based indices of the source; At(s, i) reads s[i].  A call either  *)
(* returns a value or raises: Return(v) and Raise(e) are its outcomes.     *)
(***************************************************************************)
EXTENDS Integers, Sequences, FiniteSets, TLC

VARIABLES
    given,       \* what the caller formatted the input from (or that it is a raw string)
    expression,  \* the input string
    variables,   \* ExpressionProcessor.variables
    tokResult,   \* outcome of the token based calculate(expression)
    reResult,    \* outcome of the regex based calculate(expression)
    tokens,      \* outcome of lex(expression)
    parsed,      \* outcome of parse(tokens)
    calcResult,  \* outcome of reading parsed.value
    calls,       \* the calls made so far on one processor: function, input, outcome
    \* command-pattern.py
    balance,     \* BankAccount.balance of each account
    commands,    \* the MoneyTransferCommand objects created so far
    \* singleton-pattern.py
    instances,   \* Singleton._instances
    initRuns,    \* how often __init__ of each class has run
    returned,    \* the object each instantiation returned
    \* state-pattern.py
    combination, \* CombinationLock.combination
    status,      \* CombinationLock.status
    entered,     \* the digits passed to enter_digit so far
    \* observer-pattern.py
    rats,        \* the Rat objects created so far, in the order of their handlers
    \* proxy-pattern.py
    age,         \* Person.age
    answers,     \* what drink(), drive() and drink_and_drive() returned
    \* iterator-pattern.py
    root,        \* the tree: its root and the left and right child of every node
    it_current,  \* InOrderIterator.current
    yielded_start,  \* InOrderIterator.yielded_start
    yielded,     \* the nodes __next__ returned so far
    stopped,     \* whether __next__ has raised StopIteration
    \* the loops of lex, parse and calculate, one iteration at a time
    running,     \* the call being executed: the function and its argument
    stack,       \* its frames, the innermost last: the locals of each activation
    finished     \* its outcome, once it has returned or raised

interpreterVars ==
    <<given, expression, variables, tokResult, reResult, tokens, parsed, calcResult, calls>>
bankVars == <<balance, commands>>
singletonVars == <<instances, initRuns, returned>>
lockVars == <<combination, status, entered>>
gameVars == <<rats>>
proxyVars == <<age, answers>>
iteratorVars == <<root, it_current, yielded_start, yielded, stopped>>
loopVars == <<running, stack, finished>>

vars == <<interpreterVars, bankVars, singletonVars, lockVars, gameVars, proxyVars,
          iteratorVars, loopVars>>

\* the programs a specification does not run
InterpreterOff ==
    /\ given = <<>> /\ expression = <<>> /\ variables = <<>> /\ tokResult = <<>>
    /\ reResult = <<>> /\ tokens = <<>> /\ parsed = <<>> /\ calcResult = <<>>
    /\ calls = <<>>
BankOff == balance = <<>> /\ commands = <<>>
SingletonOff == instances = <<>> /\ initRuns = <<>> /\ returned = <<>>
LockOff == combination = <<>> /\ status = <<>> /\ entered = <<>>
GameOff == rats = <<>>
ProxyOff == age = <<>> /\ answers = <<>>
IteratorOff ==
    /\ root = <<>> /\ it_current = <<>> /\ yielded_start = <<>> /\ yielded = <<>>
    /\ stopped = <<>>
LoopsOff == running = <<>> /\ stack = <<>> /\ finished = <<>>
PatternsOff ==
    BankOff /\ SingletonOff /\ LockOff /\ GameOff /\ ProxyOff /\ IteratorOff /\ LoopsOff
patternVars ==
    <<bankVars, singletonVars, lockVars, gameVars, proxyVars, iteratorVars, loopVars>>

(***************************************************************************)
(* Bounds of the model.                                                    *)
(***************************************************************************)
MaxLen == 4        \* longest input drawn from all strings over the alphabet
MaxOperands == 3   \* most operands of a generated chain  n1 op n2 op ... nk
MaxNat == 13       \* one- and two-operand chains use every integer 0..MaxNat
MaxCalls == 4      \* most calls made on one processor in a session
MaxCommands == 2   \* most MoneyTransferCommand objects created
MaxInvokes == 1    \* most invoke() calls on one command
MaxUndos == 1      \* most undo() calls on one command
MaxInstantiations == 6   \* most instantiations of the singleton classes
MaxCombination == 3      \* longest combination a lock is programmed with
MaxRats == 5             \* most Rat objects constructed in one game
MaxAnswers == 3          \* most calls made on one ResponsiblePerson
MaxNodes == 5            \* most Node objects in a tree that is iterated
MaxInput == 4            \* longest string or token list whose loops are stepped through

(***************************************************************************)
(* Python values and outcomes.                                             *)
(***************************************************************************)
Pending == [kind |-> "pending"]
Return(v) == [kind |-> "return", value |-> v]
Raise(e) == [kind |-> "raise", exc |-> e]

PyStr(s) == [py |-> "str", s |-> s]
PyInt(n) == [py |-> "int", n |-> n]

At(s, i) == s[i + 1]

\* s[a:b] for 0 <= a, b (Python slice, clipped to the string)
Slice(s, a, b) ==
    LET e == IF b > Len(s) THEN Len(s) ELSE b
    IN  IF a >= e THEN <<>> ELSE SubSeq(s, a + 1, e)

DigitChars == <<"0", "1", "2", "3", "4", "5", "6", "7", "8", "9">>
Digits == {DigitChars[k] : k \in 1..10}
DigitValue(c) == (CHOOSE k \in 1..10 : DigitChars[k] = c) - 1

\* str.isdigit() on one character
IsDigit(c) == c \in Digits

RECURSIVE DecimalValue(_)
DecimalValue(s) ==
    IF s = <<>> THEN 0
    ELSE 10 * DecimalValue(SubSeq(s, 1, Len(s) - 1)) + DigitValue(s[Len(s)])

AllDigits(s) == \A k \in 1..Len(s) : IsDigit(s[k])

\* int(x): an int is returned as it is; a string is an optional sign
\* followed by one or more decimal digits, anything else is a ValueError.
IntOf(x) ==
    IF x.py = "int" THEN Return(x.n)
    ELSE LET s == x.s
             signed == Len(s) > 0 /\ s[1] \in {"+", "-"}
             body == IF signed THEN Tail(s) ELSE s
         IN  IF body = <<>> \/ ~AllDigits(body) THEN Raise("ValueError")
             ELSE IF signed /\ s[1] = "-" THEN Return(0 - DecimalValue(body))
             ELSE Return(DecimalValue(body))

(***************************************************************************)
(* src/test.py, lines 3-75: the token based ExpressionProcessor.           *)
(***************************************************************************)
Token(text, token_type) == [text |-> text, token_type |-> token_type]

\* DigitsFor without the scan: the integer is never grown past its first digit
DigitsForFirstDigit(expr, j, digits, i) == [digits |-> digits, i |-> i]

\* lines 29-36: for j in range(i+1, len(expression)); yields digits and i
RECURSIVE DigitsFor(_, _, _, _)
DigitsFor(expr, j, digits, i) ==
    IF j >= Len(expr) THEN [digits |-> digits, i |-> i]
    ELSE IF IsDigit(At(expr, j))
         THEN DigitsFor(expr, j + 1, Append(digits, At(expr, j)), i)
         ELSE [digits |-> digits, i |-> j - 1]

\* NameFor without the scan: the name is never grown past its first letter
NameForFirstLetter(expr, j, name, i) == [name |-> name, i |-> i]

\* lines 41-48: for j in range(i+1, len(expression)); yields name and i
RECURSIVE NameFor(_, _, _, _)
NameFor(expr, j, name, i) ==
    IF j >= Len(expr) THEN [name |-> name, i |-> i]
    ELSE IF At(expr, j) \notin {"+", "-"} /\ ~IsDigit(At(expr, j))
         THEN NameFor(expr, j + 1, Append(name, At(expr, j)), i)
         ELSE [name |-> name, i |-> j - 1]

\* lines 21-60: the lexing loop; yields the token list, or the early return 0
RECURSIVE TokenLoop(_, _, _, _)
TokenLoop(expr, vs, i, toks) ==
    IF ~(i < Len(expr)) THEN [kind |-> "tokens", tokens |-> toks]
    ELSE IF At(expr, i) = "+"
         THEN TokenLoop(expr, vs, i + 1, Append(toks, Token(PyStr(<<"+">>), "PLUS")))
    ELSE IF At(expr, i) = "-"
         THEN TokenLoop(expr, vs, i + 1, Append(toks, Token(PyStr(<<"-">>), "MINUS")))
    ELSE IF IsDigit(At(expr, i))
         THEN LET d == DigitsFor(expr, i + 1, <<At(expr, i)>>, i)
              IN  TokenLoop(expr, vs, d.i + 1,
                            Append(toks, Token(PyStr(d.digits), "INTEGER")))
    ELSE LET n == NameFor(expr, i + 1, <<At(expr, i)>>, i)
         IN  IF Len(n.name) > 1 THEN Return(0)
             ELSE IF n.name \in DOMAIN vs
                  THEN TokenLoop(expr, vs, n.i + 1,
                                 Append(toks, Token(PyInt(vs[n.name]), "INTEGER")))
             ELSE Return(0)

\* EvalLoop with the return inside the loop: only the first operation is applied
EvalLoopFirstOnly(toks, i, value) ==
    IF ~(i < Len(toks)) THEN Return(value)
    ELSE IF At(toks, i).token_type \in {"PLUS", "MINUS"}
         THEN IF i + 1 >= Len(toks) THEN Raise("IndexError")
              ELSE LET v == IntOf(At(toks, i + 1).text)
                   IN  IF v.kind = "raise" THEN v
                       ELSE IF At(toks, i).token_type = "PLUS"
                            THEN Return(value + v.value)
                            ELSE Return(value - v.value)
    ELSE Return(value)

\* lines 63-75: the evaluation loop over the token list
RECURSIVE EvalLoop(_, _, _)
EvalLoop(toks, i, value) ==
    IF ~(i < Len(toks)) THEN Return(value)
    ELSE IF At(toks, i).token_type \in {"PLUS", "MINUS"}
         THEN IF i + 1 >= Len(toks) THEN Raise("IndexError")
              ELSE LET v == IntOf(At(toks, i + 1).text)
                   IN  IF v.kind = "raise" THEN v
                       ELSE IF At(toks, i).token_type = "PLUS"
                            THEN EvalLoop(toks, i + 2, value + v.value)
                            ELSE EvalLoop(toks, i + 2, value - v.value)
    ELSE EvalLoop(toks, i + 2, value)

\* lines 18-75: ExpressionProcessor.calculate (token based)
CalculateTokens(expr, vs) ==
    LET l == TokenLoop(expr, vs, 0, <<>>)
    IN  IF l.kind = "return" THEN l
        ELSE IF Len(l.tokens) = 0 THEN Raise("IndexError")
        ELSE LET first == IntOf(At(l.tokens, 0).text)
             IN  IF first.kind = "raise" THEN first
                 ELSE EvalLoop(l.tokens, 1, first.value)

(***************************************************************************)
(* src/test.py, lines 89-161: the regex based ExpressionProcessor.         *)
(***************************************************************************)
\* LookBehindMatches without the empty match at the end of the string
RECURSIVE LookBehindInside(_, _)
LookBehindInside(string, p) ==
    IF p >= Len(string) THEN <<>>
    ELSE IF At(string, p - 1) \in {"+", "-"}
         THEN <<p>> \o LookBehindInside(string, p + 1)
         ELSE LookBehindInside(string, p + 1)

\* re.finditer('(?<=[+-])', string): the empty matches, one at every
\* position that directly follows a '+' or a '-' (ascending)
RECURSIVE LookBehindMatches(_, _)
LookBehindMatches(string, p) ==
    IF p > Len(string) THEN <<>>
    ELSE IF At(string, p - 1) \in {"+", "-"}
         THEN <<p>> \o LookBehindMatches(string, p + 1)
         ELSE LookBehindMatches(string, p + 1)

\* lines 95-101: megasplit('(?<=[+-])', string)
megasplit(string) ==
    LET splits == LookBehindMatches(string, 1)
        starts == <<0>> \o splits
        ends == splits \o <<Len(string)>>
    IN  [k \in 1..Len(starts) |-> Slice(string, starts[k], ends[k])]

\* re.split('[\+\-]', part): the pieces between the operator characters
RECURSIVE ReSplit(_, _)
ReSplit(part, piece) ==
    IF part = <<>> THEN <<piece>>
    ELSE IF Head(part) \in {"+", "-"}
         THEN <<piece>> \o ReSplit(Tail(part), <<>>)
         ELSE ReSplit(Tail(part), Append(piece, Head(part)))

\* str.endswith(c)
EndsWith(s, c) == Len(s) > 0 /\ s[Len(s)] = c

\* PartValue without the lookup in self.variables
PartValueNoLookup(part, vs) ==
    LET v == IntOf(PyStr(At(ReSplit(part, <<>>), 0)))
    IN  IF v.kind = "return" THEN [kind |-> "value", value |-> v.value]
        ELSE Return(0)

\* lines 130-141: the value of one part, or the early return 0
PartValue(part, vs) ==
    LET noop == ReSplit(part, <<>>)
        first == At(noop, 0)
        v == IntOf(PyStr(first))
    IN  IF v.kind = "return" THEN [kind |-> "value", value |-> v.value]
        ELSE IF Len(first) = 1 /\ <<At(first, 0)>> \in DOMAIN vs
             THEN [kind |-> "value", value |-> vs[<<At(first, 0)>>]]
             ELSE Return(0)

\* lines 152-159: next_op after a part
NextOpOf(part) ==
    IF EndsWith(part, "+") THEN "PLUS"
    ELSE IF EndsWith(part, "-") THEN "MINUS"
    ELSE "None"

\* Accumulate with the MINUS branch adding
AccumulateAdding(current, next_op, value) ==
    IF next_op = "None" THEN value ELSE current + value

\* lines 144-149: the accumulator after a part
Accumulate(current, next_op, value) ==
    IF next_op = "None" THEN value
    ELSE IF next_op = "PLUS" THEN current + value
    ELSE current - value

\* lines 128-161: for part in parts
RECURSIVE PartsLoop(_, _, _, _, _)
PartsLoop(parts, k, current, next_op, vs) ==
    IF k > Len(parts) THEN Return(current)
    ELSE LET pv == PartValue(parts[k], vs)
         IN  IF pv.kind = "return" THEN pv
             ELSE PartsLoop(parts, k + 1, Accumulate(current, next_op, pv.value),
                            NextOpOf(parts[k]), vs)

\* lines 114-161: ExpressionProcessor.calculate (regex based)
CalculateRegex(expr, vs) == PartsLoop(megasplit(expr), 1, 0, "None", vs)

(***************************************************************************)
(* src/behavioural-patterns/interpreter-pattern.py, lines 25-69: lex.      *)
(***************************************************************************)
LexToken(type, text) == [type |-> type, text |-> text]

\* lines 58-67: for j in range(i+1, len(input)); yields i and the result list
RECURSIVE LexDigitsFor(_, _, _, _, _)
LexDigitsFor(input, j, digits, i, result) ==
    IF j >= Len(input) THEN [i |-> i, result |-> result]
    ELSE IF IsDigit(At(input, j))
         THEN LexDigitsFor(input, j + 1, Append(digits, At(input, j)), i + 1, result)
         ELSE [i |-> i, result |-> Append(result, LexToken("INTEGER", digits))]

\* lines 46-69: while (i < len(input))
RECURSIVE LexLoop(_, _, _)
LexLoop(input, i, result) ==
    IF ~(i < Len(input)) THEN result
    ELSE IF At(input, i) = "+"
         THEN LexLoop(input, i + 1, Append(result, LexToken("PLUS", <<"+">>)))
    ELSE IF At(input, i) = "-"
         THEN LexLoop(input, i + 1, Append(result, LexToken("MINUS", <<"-">>)))
    ELSE IF At(input, i) = "("
         THEN LexLoop(input, i + 1, Append(result, LexToken("LPAREN", <<"(">>)))
    ELSE IF At(input, i) = ")"
         THEN LexLoop(input, i + 1, Append(result, LexToken("RPAREN", <<")">>)))
    ELSE LET d == LexDigitsFor(input, i + 1, <<At(input, i)>>, i, result)
         IN  LexLoop(input, d.i + 1, d.result)

\* lines 43-69: lex(input)
lex(input) == LexLoop(input, 0, <<>>)

(***************************************************************************)
(* interpreter-pattern.py, lines 76-140: Integer, BinaryExpression, parse. *)
(***************************************************************************)
None == [node |-> "None"]
Integer(value) == [node |-> "Integer", value |-> value]
BinaryExpression(type, left, right) ==
    [node |-> "BinaryExpression", type |-> type, left |-> left, right |-> right]

\* lines 91-97: the value property (Integer.value is the stored attribute;
\* None has no attribute 'value')
RECURSIVE Value(_)
Value(n) ==
    IF n.node = "None" THEN Raise("AttributeError")
    ELSE IF n.node = "Integer" THEN Return(n.value)
    ELSE LET l == Value(n.left)
         IN  IF l.kind = "raise" THEN l
             ELSE LET r == Value(n.right)
                  IN  IF r.kind = "raise" THEN r
                      ELSE IF n.type = "ADDITION" THEN Return(l.value + r.value)
                      ELSE Return(l.value - r.value)

\* FindRParen matching the last RPAREN instead of the first
FindLastRParen(toks, j) ==
    LET at == {k \in j..(Len(toks) - 1) : At(toks, k).type = "RPAREN"}
    IN  IF at = {} THEN (IF j < Len(toks) THEN Len(toks) ELSE j)
        ELSE CHOOSE k \in at : \A m \in at : m <= k

\* FindRParen leaving j where it started when no RPAREN follows
FindRParenOrStay(toks, j) ==
    LET at == {k \in j..(Len(toks) - 1) : At(toks, k).type = "RPAREN"}
    IN  IF at = {} THEN j ELSE CHOOSE k \in at : \A m \in at : k <= m

\* lines 124-127: the index of the first RPAREN at or after j, else len(tokens)
RECURSIVE FindRParen(_, _)
FindRParen(toks, j) ==
    IF ~(j < Len(toks)) THEN j
    ELSE IF At(toks, j).type = "RPAREN" THEN j
    ELSE FindRParen(toks, j + 1)

\* lines 103-140: while (i < len(tokens)), with the recursive call of line 130
RECURSIVE ParseLoop(_, _, _, _)
\* the loop with an INTEGER branch that fills the right slot only while it is empty
ParseLoopKeepRight(toks, i, result, have_lhs) ==
    IF ~(i < Len(toks)) THEN Return(result)
    ELSE LET token == At(toks, i) IN
         IF token.type = "INTEGER"
         THEN LET v == IntOf(PyStr(token.text))
              IN  IF v.kind = "raise" THEN v
                  ELSE IF ~have_lhs
                       THEN ParseLoop(toks, i + 1,
                                [result EXCEPT !.left = Integer(v.value)], TRUE)
                       ELSE IF result.right # None
                       THEN ParseLoop(toks, i + 1, result, have_lhs)
                       ELSE ParseLoop(toks, i + 1,
                                [result EXCEPT !.right = Integer(v.value)], have_lhs)
         ELSE IF token.type = "PLUS"
         THEN ParseLoop(toks, i + 1, [result EXCEPT !.type = "ADDITION"], have_lhs)
         ELSE IF token.type = "MINUS"
         THEN ParseLoop(toks, i + 1, [result EXCEPT !.type = "SUBTRACTION"], have_lhs)
         ELSE IF token.type = "LPAREN"
         THEN LET j == FindRParen(toks, i)
                  subexpression == Slice(toks, i + 1, j)
                  element == ParseLoop(subexpression, 0,
                                       BinaryExpression("None", None, None), FALSE)
              IN  IF element.kind = "raise" THEN element
                  ELSE IF ~have_lhs
                       THEN ParseLoop(toks, j + 1,
                                [result EXCEPT !.left = element.value], TRUE)
                       ELSE ParseLoop(toks, j + 1,
                                [result EXCEPT !.right = element.value], have_lhs)
         ELSE ParseLoop(toks, i + 1, result, have_lhs)

ParseLoop(toks, i, result, have_lhs) ==
    IF ~(i < Len(toks)) THEN Return(result)
    ELSE LET token == At(toks, i) IN
         IF token.type = "INTEGER"
         THEN LET v == IntOf(PyStr(token.text))
              IN  IF v.kind = "raise" THEN v
                  ELSE IF ~have_lhs
                       THEN ParseLoop(toks, i + 1,
                                [result EXCEPT !.left = Integer(v.value)], TRUE)
                       ELSE ParseLoop(toks, i + 1,
                                [result EXCEPT !.right = Integer(v.value)], have_lhs)
         ELSE IF token.type = "PLUS"
         THEN ParseLoop(toks, i + 1, [result EXCEPT !.type = "ADDITION"], have_lhs)
         ELSE IF token.type = "MINUS"
         THEN ParseLoop(toks, i + 1, [result EXCEPT !.type = "SUBTRACTION"], have_lhs)
         ELSE IF token.type = "LPAREN"
         THEN LET j == FindRParen(toks, i)
                  subexpression == Slice(toks, i + 1, j)
                  element == ParseLoop(subexpression, 0,
                                       BinaryExpression("None", None, None), FALSE)
              IN  IF element.kind = "raise" THEN element
                  ELSE IF ~have_lhs
                       THEN ParseLoop(toks, j + 1,
                                [result EXCEPT !.left = element.value], TRUE)
                       ELSE ParseLoop(toks, j + 1,
                                [result EXCEPT !.right = element.value], have_lhs)
         ELSE ParseLoop(toks, i + 1, result, have_lhs)

\* lines 99-140: parse(tokens)
parse(toks) == ParseLoop(toks, 0, BinaryExpression("None", None, None), FALSE)

(***************************************************************************)
(* The inputs of the calls.                                                *)
(***************************************************************************)
Operators == {"+", "-"}

\* all strings over the alphabet A of length at most n
Strings(A, n) == UNION {[1..k -> A] : k \in 0..n}

\* str(n) for a non-negative integer
RECURSIVE DecStr(_)
DecStr(n) ==
    IF n < 10 THEN <<DigitChars[n + 1]>>
    ELSE DecStr(n \div 10) \o <<DigitChars[(n % 10) + 1]>>

CalcAlphabet == {"0", "1", "2", "+", "-", "x", "y"}
Letters == {"x", "y"}

\* the operands a chain is formatted from: integers and variable names
\* (chains of one or two operands also use every integer 0..MaxNat)
ChainNumbers == {0, 2, 3, 10, 123}
ChainNames == {<<"x">>, <<"y">>, <<"x", "y">>}
ChainOperands(k) ==
    {PyInt(n) : n \in IF k <= 2 THEN ChainNumbers \cup (0..MaxNat) ELSE ChainNumbers}
    \cup {PyStr(s) : s \in ChainNames}

OperandText(o) == IF o.py = "int" THEN DecStr(o.n) ELSE o.s

\* f"{o1}{op1}{o2}{op2}...{ok}"
RECURSIVE FormatChain(_, _)
FormatChain(operands, operators) ==
    IF Len(operands) = 1 THEN OperandText(operands[1])
    ELSE FormatChain(SubSeq(operands, 1, Len(operands) - 1),
                     SubSeq(operators, 1, Len(operators) - 1))
         \o <<operators[Len(operators)]>> \o OperandText(operands[Len(operands)])

Chains ==
    UNION {[form : {"chain"}, operands : [1..k -> ChainOperands(k)],
            operators : [1..(k - 1) -> Operators]] : k \in 1..MaxOperands}

\* lines 15-16 and 111-112: self.variables = {}
NoVariables == [k \in {} |-> 0]

\* ExpressionProcessor.variables as the caller left it (test.py line 165
\* sets 'x'; the key of a mapping is a string of any length)
Mappings ==
    { NoVariables,
      (<<"x">> :> 5),
      (<<"x">> :> 5) @@ (<<"y">> :> (0 - 3)) @@ (<<"x", "y">> :> 7) }

(***************************************************************************)
(* The calls of calculate: the input is drawn, then each implementation    *)
(* is called once on it.                                                   *)
(***************************************************************************)
CalcInit ==
    /\ \/ /\ given = [form |-> "raw"]
          /\ expression \in Strings(CalcAlphabet, MaxLen)
       \/ /\ given \in Chains
          /\ expression = FormatChain(given.operands, given.operators)
    /\ variables \in Mappings
    /\ tokResult = Pending
    /\ reResult = Pending
    /\ tokens = Pending
    /\ parsed = Pending
    /\ calcResult = Pending
    /\ calls = <<>>
    /\ PatternsOff

CallCalculateTokens ==
    /\ tokResult = Pending
    /\ tokResult' = CalculateTokens(expression, variables)
    /\ UNCHANGED <<given, expression, variables, reResult, tokens, parsed, calcResult, calls,
                   patternVars>>

CallCalculateRegex ==
    /\ reResult = Pending
    /\ reResult' = CalculateRegex(expression, variables)
    /\ UNCHANGED <<given, expression, variables, tokResult, tokens, parsed, calcResult, calls,
                   patternVars>>

CalcNext == CallCalculateTokens \/ CallCalculateRegex

SpecCalc == CalcInit /\ [][CalcNext]_vars

(***************************************************************************)
(* The inputs of calc: raw strings, and arithmetic expressions written     *)
(* with two operands at every level, every compound operand in             *)
(* parentheses.                                                            *)
(***************************************************************************)
ParenAlphabet == {"1", "2", "+", "-", "(", ")", "x"}

Lit(n) == [op |-> "lit", n |-> n]
Literals(N) == {Lit(n) : n \in N}
Compound(S) == [op : Operators, l : S, r : S]

ParenNumbers == {0, 1, 4, 12, 13, 123}
DeepNumbers == {1, 2}

\* a op b, (a op b) op c, a op (b op c), (a op b) op (c op d)
ShallowTrees == Compound(Literals(ParenNumbers) \cup Compound(Literals(ParenNumbers)))

\* the same with one more level of parentheses, such as ((1+2)-1)-(2+1)
DeepTrees ==
    Compound(Literals(DeepNumbers)
             \cup Compound(Literals(DeepNumbers) \cup Compound(Literals(DeepNumbers))))

\* ((1+2)-3)-(4+5)
NestedExample ==
    [op |-> "-",
     l |-> [op |-> "-", l |-> [op |-> "+", l |-> Lit(1), r |-> Lit(2)], r |-> Lit(3)],
     r |-> [op |-> "+", l |-> Lit(4), r |-> Lit(5)]]

Trees == ShallowTrees \cup DeepTrees \cup {NestedExample}

\* (5)-(3) and (1+2): a parenthesized single integer, a fully parenthesized
\* expression
WrappedExamples ==
    { <<"(", "5", ")", "-", "(", "3", ")">>, <<"(", "1", "+", "2", ")">> }

RECURSIVE FormatTree(_)
FormatTree(t) ==
    IF t.op = "lit" THEN DecStr(t.n)
    ELSE LET operand(x) == IF x.op = "lit" THEN DecStr(x.n)
                           ELSE <<"(">> \o FormatTree(x) \o <<")">>
         IN  operand(t.l) \o <<t.op>> \o operand(t.r)

\* the arithmetic value of the expression
RECURSIVE TreeValue(_)
TreeValue(t) ==
    IF t.op = "lit" THEN t.n
    ELSE IF t.op = "+" THEN TreeValue(t.l) + TreeValue(t.r)
    ELSE TreeValue(t.l) - TreeValue(t.r)

\* how deep the parentheses of the written expression nest
RECURSIVE ParenDepth(_)
ParenDepth(t) ==
    IF t.op = "lit" THEN 0
    ELSE LET under(x) == IF x.op = "lit" THEN 0 ELSE 1 + ParenDepth(x)
         IN  IF under(t.l) > under(t.r) THEN under(t.l) ELSE under(t.r)

(***************************************************************************)
(* interpreter-pattern.py, lines 144-150, calc(input): lex, parse, then    *)
(* read the value of the parsed expression.                                *)
(***************************************************************************)
ParseInit ==
    /\ \/ /\ given = [form |-> "raw"]
          /\ expression \in Strings(ParenAlphabet, MaxLen) \cup WrappedExamples
       \/ /\ given \in [form : {"tree"}, tree : Trees]
          /\ expression = FormatTree(given.tree)
    /\ variables = NoVariables
    /\ tokResult = Pending
    /\ reResult = Pending
    /\ tokens = Pending
    /\ parsed = Pending
    /\ calcResult = Pending
    /\ calls = <<>>
    /\ PatternsOff

\* line 145
CallLex ==
    /\ tokens = Pending
    /\ tokens' = Return(lex(expression))
    /\ UNCHANGED <<given, expression, variables, tokResult, reResult, parsed, calcResult, calls,
                   patternVars>>

\* line 149
CallParse ==
    /\ tokens.kind = "return"
    /\ parsed = Pending
    /\ parsed' = parse(tokens.value)
    /\ UNCHANGED <<given, expression, variables, tokResult, reResult, tokens, calcResult, calls,
                   patternVars>>

\* line 150
ReadValue ==
    /\ parsed.kind = "return"
    /\ calcResult = Pending
    /\ calcResult' = Value(parsed.value)
    /\ UNCHANGED <<given, expression, variables, tokResult, reResult, tokens, parsed, calls,
                   patternVars>>

ParseNext == CallLex \/ CallParse \/ ReadValue

SpecParse == ParseInit /\ [][ParseNext]_vars

(***************************************************************************)
(* A session: calls of calculate, lex, parse and value made one after the  *)
(* other, in any order and on any of the inputs, on the same processor and *)
(* on the token list and tree the earlier calls left.  Each action is the  *)
(* whole call: its outcome and every object it assigns to.  None of the    *)
(* calls assigns to self.variables (test.py lines 18-75, 114-161), to the  *)
(* list parse is given (interpreter-pattern.py line 129 takes a slice) or  *)
(* to the tree (lines 91-97).                                              *)
(***************************************************************************)
SessionInputs ==
    { <<"1", "+", "x">>,
      <<"x", "+">>,
      <<"(", "2", "+", "1", ")", "-", "(", "1", "+", "1", ")">> }

Called(fn, input, outcome) == [fn |-> fn, input |-> input, outcome |-> outcome]

SessionInit ==
    /\ given = [form |-> "raw"]
    /\ expression = <<>>
    /\ variables \in Mappings
    /\ tokResult = Pending
    /\ reResult = Pending
    /\ tokens = Pending
    /\ parsed = Pending
    /\ calcResult = Pending
    /\ calls = <<>>
    /\ PatternsOff

SessionCalculateTokens ==
    \E e \in SessionInputs :
        /\ Len(calls) < MaxCalls
        /\ expression' = e
        /\ tokResult' = CalculateTokens(e, variables)
        /\ calls' = Append(calls, Called("calculate (tokens)", e, tokResult'))
        /\ UNCHANGED <<given, variables, reResult, tokens, parsed, calcResult, patternVars>>

\* a calculate whose look-up of an unknown 'x' stores a default in self.variables
SessionCalculateRegexDefaulting ==
    \E e \in SessionInputs :
        /\ Len(calls) < MaxCalls
        /\ expression' = e
        /\ reResult' = CalculateRegex(e, variables)
        /\ calls' = Append(calls, Called("calculate (regex)", e, reResult'))
        /\ variables' = [k \in DOMAIN variables \cup {<<"x">>} |->
                            IF k \in DOMAIN variables THEN variables[k] ELSE 0]
        /\ UNCHANGED <<given, tokResult, tokens, parsed, calcResult, patternVars>>

SessionCalculateRegex ==
    \E e \in SessionInputs :
        /\ Len(calls) < MaxCalls
        /\ expression' = e
        /\ reResult' = CalculateRegex(e, variables)
        /\ calls' = Append(calls, Called("calculate (regex)", e, reResult'))
        /\ UNCHANGED <<given, variables, tokResult, tokens, parsed, calcResult, patternVars>>

SessionLex ==
    \E e \in SessionInputs :
        /\ Len(calls) < MaxCalls
        /\ expression' = e
        /\ tokens' = Return(lex(e))
        /\ calls' = Append(calls, Called("lex", e, tokens'))
        /\ UNCHANGED <<given, variables, tokResult, reResult, parsed, calcResult, patternVars>>

\* a parse that pops the tokens off the list it is given
SessionParseConsuming ==
    /\ Len(calls) < MaxCalls
    /\ tokens.kind = "return"
    /\ parsed' = parse(tokens.value)
    /\ calls' = Append(calls, Called("parse", tokens.value, parsed'))
    /\ tokens' = Return(<<>>)
    /\ UNCHANGED <<given, expression, variables, tokResult, reResult, calcResult,
                   patternVars>>

SessionParse ==
    /\ Len(calls) < MaxCalls
    /\ tokens.kind = "return"
    /\ parsed' = parse(tokens.value)
    /\ calls' = Append(calls, Called("parse", tokens.value, parsed'))
    /\ UNCHANGED <<given, expression, variables, tokResult, reResult, tokens, calcResult,
                   patternVars>>

SessionValue ==
    /\ Len(calls) < MaxCalls
    /\ parsed.kind = "return"
    /\ calcResult' = Value(parsed.value)
    /\ calls' = Append(calls, Called("value", parsed.value, calcResult'))
    /\ UNCHANGED <<given, expression, variables, tokResult, reResult, tokens, parsed,
                   patternVars>>

SessionNext ==
    \/ SessionCalculateTokens
    \/ SessionCalculateRegex
    \/ SessionLex
    \/ SessionParse
    \/ SessionValue

SpecSession == SessionInit /\ [][SessionNext]_vars

(***************************************************************************)
(* command-pattern.py: two bank accounts and the money transfers between   *)
(* them.  balance maps an account to BankAccount.balance; commands is the  *)
(* list of MoneyTransferCommand objects created, each with its two         *)
(* sub-commands' success flags (None until invoked) and its own, and the   *)
(* number of times invoke() and undo() were called on it.                  *)
(***************************************************************************)
OVERDRAFT_LIMIT == -500

Accounts == {"ba1", "ba2"}
OpeningBalances == {OVERDRAFT_LIMIT, 0, 100}
Amounts == {0, 600}

\* BankAccount.withdraw: whether the withdrawal is made
CanWithdraw(bal, amount) == bal - amount >= OVERDRAFT_LIMIT

\* BankAccount.withdraw: the balance it leaves
Withdraw(bal, amount) == IF CanWithdraw(bal, amount) THEN bal - amount ELSE bal

\* BankAccount.deposit: the balance it leaves
Deposit(bal, amount) == bal + amount

PyBool(b) == IF b THEN "True" ELSE "False"

BankInit ==
    /\ balance \in [Accounts -> OpeningBalances]
    /\ commands = <<>>
    /\ InterpreterOff /\ SingletonOff /\ LockOff /\ GameOff /\ ProxyOff /\ IteratorOff /\ LoopsOff

bankFrame ==
    <<interpreterVars, singletonVars, lockVars, gameVars, proxyVars, iteratorVars, loopVars>>

\* MoneyTransferCommand(from_acc, to_acc, amount)
NewTransfer ==
    \E from_acc \in Accounts, to_acc \in Accounts, amount \in Amounts :
        /\ from_acc # to_acc
        /\ Len(commands) < MaxCommands
        /\ commands' = Append(commands,
               [from_acc |-> from_acc, to_acc |-> to_acc, amount |-> amount,
                withdrawal |-> "None", deposit |-> "None", success |-> "None",
                invoked |-> 0, undone |-> 0])
        /\ UNCHANGED <<balance, bankFrame>>

\* CompositeBankAccountCommand.invoke: every sub-command is invoked whatever
\* the one before it did, and the transfer's own flag is not set
InvokeEvery(i) ==
    LET c == commands[i]
        ok == CanWithdraw(balance[c.from_acc], c.amount)
        afterWithdraw == [balance EXCEPT ![c.from_acc] = Withdraw(@, c.amount)]
    IN  /\ c.invoked < MaxInvokes
        /\ balance' = [afterWithdraw EXCEPT ![c.to_acc] = Deposit(@, c.amount)]
        /\ commands' = [commands EXCEPT ![i] =
               [c EXCEPT !.withdrawal = PyBool(ok), !.deposit = "True",
                         !.invoked = @ + 1]]
        /\ UNCHANGED bankFrame

\* MoneyTransferCommand.invoke
Invoke(i) ==
    LET c == commands[i]
        ok == CanWithdraw(balance[c.from_acc], c.amount)
        afterWithdraw == [balance EXCEPT ![c.from_acc] = Withdraw(@, c.amount)]
    IN  /\ c.invoked < MaxInvokes
        /\ balance' = IF ok THEN [afterWithdraw EXCEPT ![c.to_acc] = Deposit(@, c.amount)]
                            ELSE afterWithdraw
        /\ commands' = [commands EXCEPT ![i] =
               [c EXCEPT !.withdrawal = PyBool(ok), !.deposit = PyBool(ok),
                         !.success = PyBool(ok), !.invoked = @ + 1]]
        /\ UNCHANGED bankFrame

\* CompositeBankAccountCommand.undo, which MoneyTransferCommand inherits: the
\* deposit is undone first, by a withdrawal that may itself be refused, then
\* the withdrawal by a deposit; a sub-command whose success is None or False
\* is skipped
Undo(i) ==
    LET c == commands[i]
        afterDeposit == IF c.deposit = "True"
                        THEN [balance EXCEPT ![c.to_acc] = Withdraw(@, c.amount)]
                        ELSE balance
    IN  /\ c.undone < MaxUndos
        /\ balance' = IF c.withdrawal = "True"
                      THEN [afterDeposit EXCEPT ![c.from_acc] = Deposit(@, c.amount)]
                      ELSE afterDeposit
        /\ commands' = [commands EXCEPT ![i] = [c EXCEPT !.undone = @ + 1]]
        /\ UNCHANGED bankFrame

InvokeTransfer == \E i \in 1..Len(commands) : Invoke(i)
UndoTransfer == \E i \in 1..Len(commands) : Undo(i)

BankNext ==
    \/ NewTransfer
    \/ InvokeTransfer
    \/ UndoTransfer

SpecBank == BankInit /\ [][BankNext]_vars

(***************************************************************************)
(* singleton-pattern.py: the Singleton metaclass.  instances is            *)
(* Singleton._instances, keyed by class (each of the two definitions of    *)
(* the metaclass has one class, Database); initRuns counts the runs of    *)
(* each class's __init__; returned lists what each instantiation           *)
(* returned.  An object is named by its class and its serial number among  *)
(* the objects of the class; __init__ is taken to complete.                *)
(***************************************************************************)
Classes == {"Database (line 267)", "Database (line 355)"}

SingletonInit ==
    /\ instances = <<>>
    /\ initRuns = [c \in Classes |-> 0]
    /\ returned = <<>>
    /\ InterpreterOff /\ BankOff /\ LockOff /\ GameOff /\ ProxyOff /\ IteratorOff /\ LoopsOff

singletonFrame ==
    <<interpreterVars, bankVars, lockVars, gameVars, proxyVars, iteratorVars, loopVars>>

\* type.__call__: a new object of the class, its __init__ run
NewObject(cls) == [cls |-> cls, serial |-> initRuns[cls] + 1]

\* a __call__ that does not look the class up in _instances
SingletonCallAlwaysNew(cls) ==
    /\ Len(returned) < MaxInstantiations
    /\ instances' = [c \in DOMAIN instances \cup {cls} |->
                        IF c = cls THEN NewObject(cls) ELSE instances[c]]
    /\ initRuns' = [initRuns EXCEPT ![cls] = @ + 1]
    /\ returned' = Append(returned, [cls |-> cls, object |-> instances'[cls]])
    /\ UNCHANGED singletonFrame

\* Singleton.__call__(cls)
SingletonCall(cls) ==
    /\ Len(returned) < MaxInstantiations
    /\ IF cls \notin DOMAIN instances
       THEN /\ instances' = [c \in DOMAIN instances \cup {cls} |->
                                IF c = cls THEN NewObject(cls) ELSE instances[c]]
            /\ initRuns' = [initRuns EXCEPT ![cls] = @ + 1]
       ELSE UNCHANGED <<instances, initRuns>>
    /\ returned' = Append(returned, [cls |-> cls, object |-> instances'[cls]])
    /\ UNCHANGED singletonFrame

Instantiate == \E cls \in Classes : SingletonCall(cls)

SingletonNext == Instantiate

SpecSingleton == SingletonInit /\ [][SingletonNext]_vars

(***************************************************************************)
(* state-pattern.py: the CombinationLock of lines 236-251, the definition  *)
(* the name is bound to once the file has run.  combination is the string  *)
(* the digits were joined into, status the string on the lock's screen;    *)
(* entered lists the digits given to enter_digit since the lock was last   *)
(* locked.                                                                 *)
(***************************************************************************)
LOCKED == <<"L", "O", "C", "K", "E", "D">>
ERROR == <<"E", "R", "R", "O", "R">>
OPEN == <<"O", "P", "E", "N">>

LockDigits == {1, 2, 3}

\* ''.join([str(n) for n in combination])
RECURSIVE JoinDigits(_)
JoinDigits(ds) ==
    IF ds = <<>> THEN <<>> ELSE DecStr(Head(ds)) \o JoinDigits(Tail(ds))

\* s.startswith(prefix)
StartsWith(s, prefix) ==
    Len(prefix) <= Len(s) /\ SubSeq(s, 1, Len(prefix)) = prefix

Combinations == UNION {[1..n -> LockDigits] : n \in 1..MaxCombination}

LockInit ==
    /\ \E ds \in Combinations : combination = JoinDigits(ds)
    /\ status = LOCKED
    /\ entered = <<>>
    /\ InterpreterOff /\ BankOff /\ SingletonOff /\ GameOff /\ ProxyOff /\ IteratorOff /\ LoopsOff

lockFrame ==
    <<interpreterVars, bankVars, singletonVars, gameVars, proxyVars, iteratorVars, loopVars>>

\* CombinationLock.enter_digit: the status it leaves
EnterDigit(st, digit) ==
    IF st = LOCKED
    THEN DecStr(digit)
    ELSE LET added == st \o DecStr(digit)
             checked == IF ~StartsWith(combination, added) THEN ERROR ELSE added
         IN  IF combination = checked THEN OPEN ELSE checked

enter_digit ==
    \E digit \in LockDigits :
        /\ Len(entered) <= Len(combination)
        /\ status' = EnterDigit(status, digit)
        /\ entered' = Append(entered, digit)
        /\ UNCHANGED <<combination, lockFrame>>

\* CombinationLock.reset
reset ==
    /\ status' = LOCKED
    /\ entered' = <<>>
    /\ UNCHANGED <<combination, lockFrame>>

LockNext ==
    \/ enter_digit
    \/ reset

SpecLock == LockInit /\ [][LockNext]_vars

(***************************************************************************)
(* observer-pattern.py: the alternate Game and Rat of lines 260-300.  rats *)
(* lists the Rat objects in the order they were constructed, which is the  *)
(* order of their handlers on the three events of the game (no handler is  *)
(* ever taken off an event); each has its attack and whether it is in      *)
(* play, that is constructed and not yet exited.                           *)
(***************************************************************************)
GameInit ==
    /\ rats = <<>>
    /\ InterpreterOff /\ BankOff /\ SingletonOff /\ LockOff /\ ProxyOff /\ IteratorOff /\ LoopsOff

gameFrame ==
    <<interpreterVars, bankVars, singletonVars, lockVars, proxyVars, iteratorVars, loopVars>>

\* game.rat_enters(which), which being the last rat registered: every other
\* registered rat gains one attack (Rat.rat_enters), and each time one does,
\* game.notify_rat(which) adds one to the attack of which (Rat.notify_rat)
RatEntersEvent(registered) ==
    LET which == Len(registered)
    IN  [r \in 1..which |->
            IF r # which
            THEN [registered[r] EXCEPT !.attack = @ + 1]
            ELSE [registered[r] EXCEPT !.attack = @ + (which - 1)]]

\* game.rat_dies(which): Rat.rat_dies of every registered rat
RatDiesEvent(registered) ==
    [r \in 1..Len(registered) |-> [registered[r] EXCEPT !.attack = @ - 1]]

\* Rat.__init__(game)
NewRat ==
    /\ Len(rats) < MaxRats
    /\ rats' = RatEntersEvent(Append(rats, [attack |-> 1, inPlay |-> TRUE]))
    /\ UNCHANGED gameFrame

\* Rat.__exit__, at the end of the rat's with block
RatExit ==
    \E which \in 1..Len(rats) :
        /\ rats[which].inPlay
        /\ rats' = [RatDiesEvent(rats) EXCEPT ![which].inPlay = FALSE]
        /\ UNCHANGED gameFrame

GameNext ==
    \/ NewRat
    \/ RatExit

SpecGame == GameInit /\ [][GameNext]_vars

(***************************************************************************)
(* proxy-pattern.py: Person and its proxy ResponsiblePerson.  age is the   *)
(* age of the wrapped person, which the proxy's property reads and sets;   *)
(* answers lists the calls made on the proxy: the method, the age at the   *)
(* call and the value the call returned.                                   *)
(***************************************************************************)
PyNone == [py |-> "None"]

Ages == {15, 16, 17, 18}

\* Person.drink, Person.drive
PersonDrink == PyStr("drinking")
PersonDrive == PyStr("driving")

\* ResponsiblePerson.drink: the else branch calls the person's method and
\* falls off the end of the function
ResponsibleDrink(a) == IF a < 18 THEN PyStr("too young") ELSE PyNone

\* ResponsiblePerson.drive
ResponsibleDrive(a) == IF a < 16 THEN PyStr("too young") ELSE PyNone

\* ResponsiblePerson.drink_and_drive
ResponsibleDrinkAndDrive(a) == PyStr("dead")

Answer(method, a, result) == [method |-> method, age |-> a, result |-> result]

ProxyInit ==
    /\ age \in Ages
    /\ answers = <<>>
    /\ InterpreterOff /\ BankOff /\ SingletonOff /\ LockOff /\ GameOff /\ IteratorOff /\ LoopsOff

proxyFrame ==
    <<interpreterVars, bankVars, singletonVars, lockVars, gameVars, iteratorVars, loopVars>>

\* ResponsiblePerson.age = value
SetAge ==
    \E value \in Ages :
        /\ age' = value
        /\ UNCHANGED <<answers, proxyFrame>>

CallDrink ==
    /\ Len(answers) < MaxAnswers
    /\ answers' = Append(answers, Answer("drink", age, ResponsibleDrink(age)))
    /\ UNCHANGED <<age, proxyFrame>>

CallDrive ==
    /\ Len(answers) < MaxAnswers
    /\ answers' = Append(answers, Answer("drive", age, ResponsibleDrive(age)))
    /\ UNCHANGED <<age, proxyFrame>>

CallDrinkAndDrive ==
    /\ Len(answers) < MaxAnswers
    /\ answers' = Append(answers,
                         Answer("drink_and_drive", age, ResponsibleDrinkAndDrive(age)))
    /\ UNCHANGED <<age, proxyFrame>>

ProxyNext ==
    \/ SetAge
    \/ CallDrink
    \/ CallDrive
    \/ CallDrinkAndDrive

SpecProxy == ProxyInit /\ [][ProxyNext]_vars

(***************************************************************************)
(* iterator-pattern.py: a binary tree of Node objects, InOrderIterator and *)
(* the generator traverse_in_order.  A tree is drawn as a term, then built *)
(* as the Node constructor builds it: root maps each node (numbered from   *)
(* 1, the root, parents before children) to its left, right and parent     *)
(* attributes, NoNode standing for None.  it_current and yielded_start are *)
(* the iterator's attributes; yielded lists what __next__ returned and     *)
(* stopped names the exception the last __next__ raised, if it raised.     *)
(***************************************************************************)
NoNode == 0

Node(left, right) == [node |-> "Node", left |-> left, right |-> right]

\* the tree terms of exactly n nodes
RECURSIVE TreesOfSize(_)
TreesOfSize(n) ==
    IF n = 0 THEN {None}
    ELSE UNION { {Node(l, r) : l \in TreesOfSize(k), r \in TreesOfSize(n - 1 - k)}
                 : k \in 0..(n - 1) }

RECURSIVE Size(_)
Size(t) == IF t.node = "None" THEN 0 ELSE 1 + Size(t.left) + Size(t.right)

\* Node.__init__ over a whole term: the node numbered id, whose parent is p,
\* and below it the nodes of its subtrees, each child's parent set to it
RECURSIVE Build(_, _, _)
Build(t, id, p) ==
    LET leftId == IF t.left.node = "None" THEN NoNode ELSE id + 1
        rightId == IF t.right.node = "None" THEN NoNode ELSE id + 1 + Size(t.left)
    IN  (id :> [left |-> leftId, right |-> rightId, parent |-> p])
            @@ (IF leftId = NoNode THEN <<>> ELSE Build(t.left, leftId, id))
            @@ (IF rightId = NoNode THEN <<>> ELSE Build(t.right, rightId, id))

RootNode == 1

NodeTrees == UNION {TreesOfSize(n) : n \in 1..MaxNodes}

\* while self.current.left: self.current = self.current.left
RECURSIVE Leftmost(_, _)
Leftmost(h, n) == IF h[n].left # NoNode THEN Leftmost(h, h[n].left) ELSE n

\* a bubbling-up that stops at the parent whichever child it came from
BubbleUpOnce(h, n, p) == p

\* while p and self.current == p.right: ...; self.current = p
RECURSIVE BubbleUp(_, _, _)
BubbleUp(h, n, p) ==
    IF p # NoNode /\ n = h[p].right THEN BubbleUp(h, p, h[p].parent) ELSE p

\* InOrderIterator.__next__ once the first node was returned: the node it
\* moves to, NoNode when there is none
Successor(h, n) ==
    IF h[n].right # NoNode
    THEN Leftmost(h, h[n].right)
    ELSE BubbleUp(h, n, h[n].parent)

\* traverse_in_order: the nodes it yields, in order
RECURSIVE traverse(_, _)
traverse(h, n) ==
    (IF h[n].left # NoNode THEN traverse(h, h[n].left) ELSE <<>>)
        \o <<n>>
        \o (IF h[n].right # NoNode THEN traverse(h, h[n].right) ELSE <<>>)

traverse_in_order(h) == traverse(h, RootNode)

\* iter(root) on a freshly built tree
IteratorInit ==
    /\ \E t \in NodeTrees : root = Build(t, RootNode, NoNode)
    /\ it_current = Leftmost(root, RootNode)
    /\ yielded_start = FALSE
    /\ yielded = <<>>
    /\ stopped = "no"
    /\ InterpreterOff /\ BankOff /\ SingletonOff /\ LockOff /\ GameOff /\ ProxyOff /\ LoopsOff

iteratorFrame ==
    <<interpreterVars, bankVars, singletonVars, lockVars, gameVars, proxyVars, loopVars>>

\* InOrderIterator.__next__
IteratorNext ==
    /\ IF ~yielded_start
       THEN /\ yielded_start' = TRUE
            /\ yielded' = Append(yielded, it_current)
            /\ stopped' = "no"
            /\ UNCHANGED it_current
       ELSE IF it_current = NoNode
       THEN \* None has no attribute right
            /\ stopped' = "AttributeError"
            /\ UNCHANGED <<it_current, yielded_start, yielded>>
       ELSE /\ it_current' = Successor(root, it_current)
            /\ IF it_current' # NoNode
               THEN yielded' = Append(yielded, it_current') /\ stopped' = "no"
               ELSE yielded' = yielded /\ stopped' = "StopIteration"
            /\ UNCHANGED yielded_start
    /\ UNCHANGED <<root, iteratorFrame>>

SpecIterator == IteratorInit /\ [][IteratorNext]_vars

(***************************************************************************)
(* parse applied to a token list of its own: INTEGER tokens with PLUS or   *)
(* MINUS tokens between them, without parentheses, as lex builds them for  *)
(* a chain that is followed by one more character.                         *)
(***************************************************************************)
FlatNumbers == {0, 1, 2, 12}

OperatorToken(op) == IF op = "+" THEN LexToken("PLUS", <<"+">>) ELSE LexToken("MINUS", <<"-">>)

RECURSIVE FlatTokens(_, _)
FlatTokens(operands, operators) ==
    IF Len(operands) = 1 THEN <<LexToken("INTEGER", DecStr(operands[1]))>>
    ELSE FlatTokens(SubSeq(operands, 1, Len(operands) - 1),
                    SubSeq(operators, 1, Len(operators) - 1))
         \o <<OperatorToken(operators[Len(operators)]),
              LexToken("INTEGER", DecStr(operands[Len(operands)]))>>

FlatChains ==
    UNION {[form : {"tokens"}, operands : [1..k -> FlatNumbers],
            operators : [1..(k - 1) -> Operators]] : k \in 1..MaxOperands}

FlatInit ==
    /\ given \in FlatChains
    /\ expression = <<>>
    /\ variables = NoVariables
    /\ tokResult = Pending
    /\ reResult = Pending
    /\ tokens = Return(FlatTokens(given.operands, given.operators))
    /\ parsed = Pending
    /\ calcResult = Pending
    /\ calls = <<>>
    /\ PatternsOff

FlatNext == CallParse \/ ReadValue

SpecFlat == FlatInit /\ [][FlatNext]_vars

(***************************************************************************)
(* The loops of lex, parse and the two calculate implementations, taken    *)
(* one iteration at a time.  running is the call; stack holds the locals   *)
(* of its activations (parse calls itself, the others have one frame);     *)
(* finished is Pending while the call executes.  A for loop over a range   *)
(* and the search for the RPAREN are part of the iteration that contains   *)
(* them.                                                                   *)
(***************************************************************************)
LoopAlphabet == {"1", "+", "(", ")", "x"}
LoopTokens ==
    {LexToken("INTEGER", <<"1">>), LexToken("PLUS", <<"+">>),
     LexToken("LPAREN", <<"(">>), LexToken("RPAREN", <<")">>)}

\* a call: of lex or calculate on a string, or of parse on a token list
Run(fn, input, toks, vs) == [fn |-> fn, input |-> input, toks |-> toks, variables |-> vs]

Runs ==
    {Run("lex", e, <<>>, NoVariables) : e \in Strings(LoopAlphabet, MaxInput)}
    \cup {Run("parse", <<>>, t, NoVariables) : t \in Strings(LoopTokens, MaxInput)}
    \cup {Run(fn, e, <<>>, vs) : fn \in {"calculate (tokens)", "calculate (regex)"},
                                 e \in Strings(LoopAlphabet, MaxInput), vs \in Mappings}

\* interpreter-pattern.py lines 100-102: the locals of an activation of parse
ParseFrame(toks) ==
    [toks |-> toks, i |-> 0, result |-> BinaryExpression("None", None, None),
     have_lhs |-> FALSE, j |-> 0]

FirstFrame(r) ==
    IF r.fn = "lex" THEN [i |-> 0, result |-> <<>>]
    ELSE IF r.fn = "parse" THEN ParseFrame(r.toks)
    ELSE IF r.fn = "calculate (tokens)"
         THEN [loop |-> "lexing", i |-> 0, toks |-> <<>>, value |-> 0]
    ELSE [parts |-> megasplit(r.input), k |-> 1, current |-> 0, next_op |-> "None"]

LoopInit ==
    /\ running \in Runs
    /\ stack = <<FirstFrame(running)>>
    /\ finished = Pending
    /\ InterpreterOff
    /\ BankOff /\ SingletonOff /\ LockOff /\ GameOff /\ ProxyOff /\ IteratorOff

loopFrame ==
    <<interpreterVars, bankVars, singletonVars, lockVars, gameVars, proxyVars, iteratorVars>>

\* the call returns or raises
Finish(o) ==
    /\ finished' = o
    /\ stack' = <<>>
    /\ UNCHANGED <<running, loopFrame>>

\* the innermost activation goes on with the locals f
GoOn(f) ==
    /\ stack' = [stack EXCEPT ![Len(stack)] = f]
    /\ UNCHANGED <<running, finished, loopFrame>>

Executing(fn) == running.fn = fn /\ stack # <<>>

\* interpreter-pattern.py lines 46-69: one iteration of the while loop of lex
LexIteration ==
    /\ Executing("lex")
    /\ LET f == stack[Len(stack)]
           input == running.input
       IN  IF ~(f.i < Len(input)) THEN Finish(Return(f.result))
           ELSE IF At(input, f.i) = "+"
                THEN GoOn([i |-> f.i + 1,
                           result |-> Append(f.result, LexToken("PLUS", <<"+">>))])
           ELSE IF At(input, f.i) = "-"
                THEN GoOn([i |-> f.i + 1,
                           result |-> Append(f.result, LexToken("MINUS", <<"-">>))])
           ELSE IF At(input, f.i) = "("
                THEN GoOn([i |-> f.i + 1,
                           result |-> Append(f.result, LexToken("LPAREN", <<"(">>))])
           ELSE IF At(input, f.i) = ")"
                THEN GoOn([i |-> f.i + 1,
                           result |-> Append(f.result, LexToken("RPAREN", <<")">>))])
           ELSE LET d == LexDigitsFor(input, f.i + 1, <<At(input, f.i)>>, f.i, f.result)
                IN  GoOn([i |-> d.i + 1, result |-> d.result])

\* the cursor staying on the LPAREN after its group was parsed
AfterGroupStay(i, j) == i

\* interpreter-pattern.py lines 137 and 139: i = j, then i += 1
AfterGroup(i, j) == j + 1

\* interpreter-pattern.py lines 103-140: one iteration of the while loop of
\* the innermost activation of parse; at the end of the loop the activation
\* returns, to its caller's line 131 when it has one
ParseIteration ==
    /\ Executing("parse")
    /\ LET f == stack[Len(stack)]
           token == At(f.toks, f.i)
       IN  IF ~(f.i < Len(f.toks))
           THEN IF Len(stack) = 1 THEN Finish(Return(f.result))
                ELSE LET c == stack[Len(stack) - 1]
                         stored == IF ~c.have_lhs
                                   THEN [c EXCEPT !.result.left = f.result,
                                                  !.have_lhs = TRUE]
                                   ELSE [c EXCEPT !.result.right = f.result]
                     IN  /\ stack' = SubSeq(stack, 1, Len(stack) - 2)
                                        \o <<[stored EXCEPT !.i = AfterGroup(c.i, c.j)]>>
                         /\ UNCHANGED <<running, finished, loopFrame>>
           ELSE IF token.type = "INTEGER"
           THEN LET v == IntOf(PyStr(token.text))
                IN  IF v.kind = "raise" THEN Finish(v)
                    ELSE IF ~f.have_lhs
                    THEN GoOn([f EXCEPT !.result.left = Integer(v.value),
                                        !.have_lhs = TRUE, !.i = @ + 1])
                    ELSE GoOn([f EXCEPT !.result.right = Integer(v.value), !.i = @ + 1])
           ELSE IF token.type = "PLUS"
           THEN GoOn([f EXCEPT !.result.type = "ADDITION", !.i = @ + 1])
           ELSE IF token.type = "MINUS"
           THEN GoOn([f EXCEPT !.result.type = "SUBTRACTION", !.i = @ + 1])
           ELSE IF token.type = "LPAREN"
           THEN LET j == FindRParen(f.toks, f.i)
                IN  /\ stack' = [stack EXCEPT ![Len(stack)].j = j]
                                    \o <<ParseFrame(Slice(f.toks, f.i + 1, j))>>
                    /\ UNCHANGED <<running, finished, loopFrame>>
           ELSE GoOn([f EXCEPT !.i = @ + 1])

\* test.py lines 21-75: one iteration of the lexing loop of the token based
\* calculate, the statement between the loops (line 62), or one iteration of
\* its evaluation loop
CalculateTokensIteration ==
    /\ Executing("calculate (tokens)")
    /\ LET f == stack[Len(stack)]
           expr == running.input
           vs == running.variables
       IN  IF f.loop = "lexing"
           THEN IF ~(f.i < Len(expr))
                THEN IF Len(f.toks) = 0 THEN Finish(Raise("IndexError"))
                     ELSE LET first == IntOf(At(f.toks, 0).text)
                          IN  IF first.kind = "raise" THEN Finish(first)
                              ELSE GoOn([f EXCEPT !.loop = "evaluating", !.i = 1,
                                                  !.value = first.value])
                ELSE IF At(expr, f.i) = "+"
                THEN GoOn([f EXCEPT !.i = @ + 1,
                                    !.toks = Append(@, Token(PyStr(<<"+">>), "PLUS"))])
                ELSE IF At(expr, f.i) = "-"
                THEN GoOn([f EXCEPT !.i = @ + 1,
                                    !.toks = Append(@, Token(PyStr(<<"-">>), "MINUS"))])
                ELSE IF IsDigit(At(expr, f.i))
                THEN LET d == DigitsFor(expr, f.i + 1, <<At(expr, f.i)>>, f.i)
                     IN  GoOn([f EXCEPT !.i = d.i + 1,
                                        !.toks = Append(@, Token(PyStr(d.digits), "INTEGER"))])
                ELSE LET n == NameFor(expr, f.i + 1, <<At(expr, f.i)>>, f.i)
                     IN  IF Len(n.name) > 1 THEN Finish(Return(0))
                         ELSE IF n.name \in DOMAIN vs
                         THEN GoOn([f EXCEPT !.i = n.i + 1,
                                             !.toks = Append(@, Token(PyInt(vs[n.name]),
                                                                      "INTEGER"))])
                         ELSE Finish(Return(0))
           ELSE IF ~(f.i < Len(f.toks)) THEN Finish(Return(f.value))
                ELSE IF At(f.toks, f.i).token_type \in {"PLUS", "MINUS"}
                THEN IF f.i + 1 >= Len(f.toks) THEN Finish(Raise("IndexError"))
                     ELSE LET v == IntOf(At(f.toks, f.i + 1).text)
                          IN  IF v.kind = "raise" THEN Finish(v)
                              ELSE IF At(f.toks, f.i).token_type = "PLUS"
                              THEN GoOn([f EXCEPT !.i = @ + 2, !.value = @ + v.value])
                              ELSE GoOn([f EXCEPT !.i = @ + 2, !.value = @ - v.value])
                ELSE GoOn([f EXCEPT !.i = @ + 2])

\* test.py lines 128-161: one iteration of the for loop over the parts
CalculateRegexIteration ==
    /\ Executing("calculate (regex)")
    /\ LET f == stack[Len(stack)]
       IN  IF f.k > Len(f.parts) THEN Finish(Return(f.current))
           ELSE LET pv == PartValue(f.parts[f.k], running.variables)
                IN  IF pv.kind = "return" THEN Finish(pv)
                    ELSE GoOn([f EXCEPT !.k = @ + 1,
                                        !.current = Accumulate(@, f.next_op, pv.value),
                                        !.next_op = NextOpOf(f.parts[f.k])])

LoopNext ==
    \/ LexIteration
    \/ ParseIteration
    \/ CalculateTokensIteration
    \/ CalculateRegexIteration

\* a call that has started runs until it returns or raises
SpecLoops == LoopInit /\ [][LoopNext]_vars /\ WF_vars(LoopNext)

(***************************************************************************)
(* interpreter-pattern.py, lines 172-226: the Token and the token based    *)
(* ExpressionProcessor.calculate of the exercise.  A token is appended     *)
(* inside the for loop, in the branch that breaks out of it, and the       *)
(* evaluation loop compares tokens[i].Type, the enumeration class itself,  *)
(* with one of its members.                                                *)
(***************************************************************************)
\* lines 194-200: for j in range(i+1, len(expression)); yields i and tokens
RECURSIVE ExerciseDigitsFor(_, _, _, _, _)
ExerciseDigitsFor(expr, j, digits, i, toks) ==
    IF j >= Len(expr) THEN [kind |-> "tokens", i |-> i, tokens |-> toks]
    ELSE IF IsDigit(At(expr, j))
         THEN ExerciseDigitsFor(expr, j + 1, Append(digits, At(expr, j)), i, toks)
         ELSE [kind |-> "tokens", i |-> j - 1,
               tokens |-> Append(toks, Token(PyStr(digits), "INTEGER"))]

\* lines 203-212: for j in range(i+1, len(expression)); yields i and tokens,
\* or the early return 0
RECURSIVE ExerciseNameFor(_, _, _, _, _, _)
ExerciseNameFor(expr, vs, j, name, i, toks) ==
    IF j >= Len(expr) THEN [kind |-> "tokens", i |-> i, tokens |-> toks]
    ELSE IF At(expr, j) \notin {"+", "-"} /\ ~IsDigit(At(expr, j))
         THEN ExerciseNameFor(expr, vs, j + 1, Append(name, At(expr, j)), i, toks)
         ELSE IF name \notin DOMAIN vs THEN Return(0)
              ELSE [kind |-> "tokens", i |-> j - 1,
                    tokens |-> Append(toks, Token(PyInt(vs[name]), "INTEGER"))]

\* lines 186-214: the lexing loop
RECURSIVE ExerciseTokenLoop(_, _, _, _)
ExerciseTokenLoop(expr, vs, i, toks) ==
    IF ~(i < Len(expr)) THEN [kind |-> "tokens", i |-> i, tokens |-> toks]
    ELSE IF At(expr, i) = "+"
         THEN ExerciseTokenLoop(expr, vs, i + 1, Append(toks, Token(PyStr(<<"+">>), "PLUS")))
    ELSE IF At(expr, i) = "-"
         THEN ExerciseTokenLoop(expr, vs, i + 1, Append(toks, Token(PyStr(<<"-">>), "MINUS")))
    ELSE IF IsDigit(At(expr, i))
         THEN LET d == ExerciseDigitsFor(expr, i + 1, <<At(expr, i)>>, i, toks)
              IN  ExerciseTokenLoop(expr, vs, d.i + 1, d.tokens)
    ELSE LET n == ExerciseNameFor(expr, vs, i + 1, <<At(expr, i)>>, i, toks)
         IN  IF n.kind = "return" THEN n
             ELSE ExerciseTokenLoop(expr, vs, n.i + 1, n.tokens)

\* tokens[i].Type == Token.Type.PLUS: Type is the class attribute of Token
\* (lines 173-176), the enumeration, which equals none of its members
TypeIs(token, member) == FALSE

\* lines 217-225: the evaluation loop
RECURSIVE ExerciseEvalLoop(_, _, _)
ExerciseEvalLoop(toks, i, value) ==
    IF ~(i < Len(toks)) THEN Return(value)
    ELSE IF TypeIs(At(toks, i), "PLUS") \/ TypeIs(At(toks, i), "MINUS")
         THEN IF i + 1 >= Len(toks) THEN Raise("IndexError")
              ELSE LET v == IntOf(At(toks, i + 1).text)
                   IN  IF v.kind = "raise" THEN v
                       ELSE IF TypeIs(At(toks, i), "PLUS")
                            THEN ExerciseEvalLoop(toks, i + 2, value + v.value)
                            ELSE ExerciseEvalLoop(toks, i + 2, value - v.value)
    ELSE ExerciseEvalLoop(toks, i + 2, value)

\* lines 183-226: ExpressionProcessor.calculate
CalculateExercise(expr, vs) ==
    LET l == ExerciseTokenLoop(expr, vs, 0, <<>>)
    IN  IF l.kind = "return" THEN l
        ELSE IF Len(l.tokens) = 0 THEN Raise("IndexError")
        ELSE LET first == IntOf(At(l.tokens, 0).text)
             IN  IF first.kind = "raise" THEN first
                 ELSE ExerciseEvalLoop(l.tokens, 1, first.value)

\* ExpressionProcessor().calculate(expression), on the inputs of CalcInit
CallCalculateExercise ==
    /\ calls = <<>>
    /\ calls' = <<Called("calculate (exercise)", expression,
                         CalculateExercise(expression, variables))>>
    /\ UNCHANGED <<given, expression, variables, tokResult, reResult, tokens, parsed,
                   calcResult, patternVars>>

SpecExercise == CalcInit /\ [][CallCalculateExercise]_vars

(***************************************************************************)
(* What the calls are expected to yield.                                   *)
(***************************************************************************)
IsOperator(c) == c \in Operators
IsLetter(c) == ~IsOperator(c) /\ ~IsDigit(c)

\* the string is  operand (op operand)*,  an operand being a run of digits
\* or a run of letters
GrammarForm(e) ==
    /\ Len(e) > 0
    /\ ~IsOperator(e[1])
    /\ ~IsOperator(e[Len(e)])
    /\ \A k \in 1..(Len(e) - 1) :
          /\ ~(IsOperator(e[k]) /\ IsOperator(e[k + 1]))
          /\ ~(IsDigit(e[k]) /\ IsLetter(e[k + 1]))
          /\ ~(IsLetter(e[k]) /\ IsDigit(e[k + 1]))

IsChain == given.form = "chain"
NumericChain == IsChain /\ \A k \in 1..Len(given.operands) : given.operands[k].py = "int"

\* an operand that calculate resolves: an integer, or one letter of the mapping
Resolved(o, vs) == o.py = "int" \/ (Len(o.s) = 1 /\ o.s \in DOMAIN vs)
OperandValue(o, vs) == IF o.py = "int" THEN o.n ELSE vs[o.s]

\* ((n1 op1 n2) op2 n3) ...
RECURSIVE LeftFold(_, _, _)
LeftFold(operands, operators, vs) ==
    IF Len(operands) = 1 THEN OperandValue(operands[1], vs)
    ELSE LET front == LeftFold(SubSeq(operands, 1, Len(operands) - 1),
                               SubSeq(operators, 1, Len(operators) - 1), vs)
             last == OperandValue(operands[Len(operands)], vs)
         IN  IF operators[Len(operators)] = "+" THEN front + last ELSE front - last

\* both implementations, once called, returned v
BothReturn(v) ==
    /\ tokResult # Pending => tokResult = Return(v)
    /\ reResult # Pending => reResult = Return(v)

BothReturned(v) == tokResult = Return(v) /\ reResult = Return(v)

(***************************************************************************)
(* Claims about calculate (SpecCalc).                                      *)
(***************************************************************************)
\* C1: a chain n1 op1 n2 op2 ... nk of non-negative integer literals, with an
\* empty variables mapping, evaluates to the left fold ((n1 op1 n2) op2 n3)...
\* in both implementations; "10-2+3" evaluates to 11.
C1_LeftToRight ==
    /\ (NumericChain /\ variables = NoVariables)
          => BothReturn(LeftFold(given.operands, given.operators, variables))
    /\ (expression = <<"1", "0", "-", "2", "+", "3">> /\ variables = NoVariables)
          => BothReturn(11)

C1_Witness ==
    /\ expression = <<"1", "0", "-", "2", "+", "3">>
    /\ variables = NoVariables
    /\ BothReturned(11)

\* C2: for non-negative integers a and b, "a+b" evaluates to a + b and "a-b"
\* to a - b (possibly negative), with an empty variables mapping, in both
\* implementations.
C2_SumAndDifference ==
    (NumericChain /\ Len(given.operands) = 2 /\ variables = NoVariables) =>
        LET a == given.operands[1].n
            b == given.operands[2].n
        IN  /\ expression = DecStr(a) \o <<"+">> \o DecStr(b) => BothReturn(a + b)
            /\ expression = DecStr(a) \o <<"-">> \o DecStr(b) => BothReturn(a - b)

C2_Witness ==
    /\ expression = <<"3", "-", "1", "2">>
    /\ variables = NoVariables
    /\ BothReturned(0 - 9)

\* C3: for a non-negative integer a, str(a) evaluates to a, with an empty
\* variables mapping, in both implementations.
C3_Literal ==
    \A a \in ChainNumbers \cup (0..MaxNat) :
        (expression = DecStr(a) /\ variables = NoVariables) => BothReturn(a)

C3_Witness ==
    /\ expression = <<"1", "2", "3">>
    /\ variables = NoVariables
    /\ BothReturned(123)

\* C4: a single-letter operand that is a key of the mapping contributes its
\* mapped value in any operand position; "1+x" with {x: 5} evaluates to 6.
C4_VariableSubstitution ==
    /\ (/\ IsChain
        /\ \E k \in 1..Len(given.operands) : given.operands[k].py = "str"
        /\ \A k \in 1..Len(given.operands) : Resolved(given.operands[k], variables))
          => BothReturn(LeftFold(given.operands, given.operators, variables))
    /\ (expression = <<"1", "+", "x">> /\ variables = (<<"x">> :> 5)) => BothReturn(6)

C4_Witness ==
    /\ expression = <<"1", "+", "x">>
    /\ variables = (<<"x">> :> 5)
    /\ BothReturned(6)

\* C5: a chain in which some operand is a letter run of length other than 1
\* (even one that is a key of the mapping) or a letter absent from the
\* mapping evaluates to 0 and does not raise; "1+xy" and "1+x" evaluate to 0
\* with an empty mapping.
C5_UnresolvedIsZero ==
    /\ (IsChain /\ \E k \in 1..Len(given.operands) : ~Resolved(given.operands[k], variables))
          => BothReturn(0)
    /\ (expression \in {<<"1", "+", "x", "y">>, <<"1", "+", "x">>} /\ variables = NoVariables)
          => BothReturn(0)

C5_Witness ==
    /\ expression = <<"1", "+", "x", "y">>
    /\ <<"x", "y">> \in DOMAIN variables
    /\ BothReturned(0)

\* C6: the token based calculate never raises: on every string over digits,
\* letters, '+' and '-' it returns an integer, and it returns 0 when the
\* string is not of the form operand (op operand)*.
C6_TokensNeverRaise ==
    tokResult # Pending =>
        /\ tokResult.kind = "return"
        /\ tokResult.value \in Int
        /\ ~GrammarForm(expression) => tokResult.value = 0

\* C7: the regex based calculate never raises: on every string over digits,
\* letters, '+' and '-' it returns an integer, and it returns 0 when the
\* string is not of the form operand (op operand)*.
C7_RegexNeverRaises ==
    reResult # Pending =>
        /\ reResult.kind = "return"
        /\ reResult.value \in Int
        /\ ~GrammarForm(expression) => reResult.value = 0

C7_Witness ==
    /\ expression = <<"1", "+", "-", "x">>
    /\ <<"x">> \in DOMAIN variables
    /\ reResult = Return(0)

(***************************************************************************)
(* Claims about lex, parse and the value of the parsed tree (SpecParse).   *)
(***************************************************************************)
IsTree == given.form = "tree"

\* (a op1 b) op2 (c op3 d)
FourOperands ==
    /\ IsTree
    /\ given.tree.l.op # "lit" /\ given.tree.l.l.op = "lit" /\ given.tree.l.r.op = "lit"
    /\ given.tree.r.op # "lit" /\ given.tree.r.l.op = "lit" /\ given.tree.r.r.op = "lit"

\* parse returned a tree whose value, once read, is v
Evaluates(v) ==
    /\ parsed # Pending => parsed.kind = "return"
    /\ calcResult # Pending => calcResult = Return(v)

ParenExample == <<"(", "1", "3", "+", "4", ")", "-", "(", "1", "2", "+", "1", ")">>

\* C8: for non-negative integers a, b, c, d and operators op1, op2, op3,
\* parse(lex("(a op1 b) op2 (c op3 d)")).value is (a op1 b) op2 (c op3 d);
\* "(13+4)-(12+1)" evaluates to 4.
C8_Parenthesized ==
    /\ FourOperands => Evaluates(TreeValue(given.tree))
    /\ expression = ParenExample => Evaluates(4)

C8_Witness == expression = ParenExample /\ calcResult = Return(4)

\* the string is made of digit runs separated by single operators
DigitRuns(e) == GrammarForm(e) /\ \A k \in 1..Len(e) : IsDigit(e[k]) \/ IsOperator(e[k])

\* one INTEGER token per maximal digit run, one PLUS/MINUS token per operator
RECURSIVE RunTokens(_, _)
RunTokens(e, run) ==
    LET flush == IF run = <<>> THEN <<>> ELSE <<LexToken("INTEGER", run)>>
    IN  IF e = <<>> THEN flush
        ELSE IF IsDigit(Head(e)) THEN RunTokens(Tail(e), Append(run, Head(e)))
        ELSE flush \o <<LexToken(IF Head(e) = "+" THEN "PLUS" ELSE "MINUS", <<Head(e)>>)>>
                   \o RunTokens(Tail(e), <<>>)

\* C9: on digit runs separated by single '+'/'-' characters lex returns one
\* INTEGER token per maximal digit run (its text the whole run) and one
\* PLUS/MINUS token per operator, in input order, the run that ends the
\* input included; lex("123+4") yields "123", "+", "4".
C9_DigitRunTokens ==
    (DigitRuns(expression) /\ tokens # Pending)
        => tokens = Return(RunTokens(expression, <<>>))

\* C10: for an expression whose parentheses nest to depth 2 or more, with two
\* operands at every level, parse(lex(s)).value is defined and is the
\* arithmetic value of the expression.
C10_NestedParentheses ==
    (IsTree /\ ParenDepth(given.tree) >= 2) => Evaluates(TreeValue(given.tree))

\* every BinaryExpression node under n has an operator type and two children
RECURSIVE Complete(_)
Complete(n) ==
    IF n.node = "BinaryExpression"
    THEN /\ n.type # "None"
         /\ n.left # None /\ Complete(n.left)
         /\ n.right # None /\ Complete(n.right)
    ELSE TRUE

\* C11: for every well-formed input (two operands, each an integer or a
\* parenthesized well-formed expression, also "(5)-(3)" and "(1+2)") every
\* BinaryExpression node of the tree parse(lex(s)) returns, the root and the
\* nested ones, has a non-null operator type and non-null left and right.
C11_TreeComplete ==
    ((IsTree \/ expression \in WrappedExamples) /\ parsed.kind = "return")
        => Complete(parsed.value)

\* C12: on every string over digits, letters, '+', '-', '(' and ')' every
\* token lex returns has a non-empty text, and the text of every INTEGER
\* token consists of decimal digits only.
C12_TokenTexts ==
    tokens.kind = "return" =>
        \A k \in 1..Len(tokens.value) :
            /\ tokens.value[k].text # <<>>
            /\ tokens.value[k].type = "INTEGER" => AllDigits(tokens.value[k].text)

LastCall == calls'[Len(calls')]
CallOf(fns) == Len(calls') > Len(calls) /\ LastCall.fn \in fns

Invoked(i) == i <= Len(commands) /\ commands'[i].invoked = commands[i].invoked + 1

\* C15: MoneyTransferCommand.invoke is all-or-nothing.  With balances at or
\* above OVERDRAFT_LIMIT and a non-negative amount, either the withdrawal
\* succeeds, the source balance goes down by amount, the destination balance
\* goes up by amount and success is True; or the withdrawal fails, no deposit
\* is made, both balances stay as they were, and success is False for the
\* transfer and for both sub-commands.
C15_AllOrNothing ==
    [][ \A i \in 1..Len(commands') : Invoked(i) =>
          LET c == commands[i]
              d == commands'[i]
          IN  IF balance[c.from_acc] - c.amount >= OVERDRAFT_LIMIT
              THEN /\ balance'[c.from_acc] = balance[c.from_acc] - c.amount
                   /\ balance'[c.to_acc] = balance[c.to_acc] + c.amount
                   /\ d.withdrawal = "True"
                   /\ d.success = "True"
              ELSE /\ balance' = balance
                   /\ d.withdrawal = "False"
                   /\ d.deposit = "False"
                   /\ d.success = "False" ]_vars

\* a transfer of 600 was made, down to the overdraft limit, and a second
\* one from the same account was refused
C15_Witness ==
    /\ Len(commands) = 2
    /\ commands[1].amount = 600 /\ commands[1].success = "True"
    /\ balance[commands[1].from_acc] = OVERDRAFT_LIMIT
    /\ commands[2].from_acc = commands[1].from_acc
    /\ commands[2].amount = 600 /\ commands[2].success = "False"
    /\ commands[2].deposit = "False"
    /\ \A a \in Accounts : balance[a] >= OVERDRAFT_LIMIT

C17_OpenOrError ==
    Len(entered) = Len(combination) =>
        status = IF JoinDigits(entered) = combination THEN OPEN ELSE ERROR

(***************************************************************************)
(* Claims about the rat swarm (SpecGame).                                  *)
(***************************************************************************)
InPlay == {r \in 1..Len(rats) : rats[r].inPlay}

\* C18: after any sequence of rats entering and leaving play, a rat entering
\* after another has died included, the attack of every rat in play is the
\* number of rats in play.
C18_AttackIsSwarmSize ==
    \A r \in InPlay : rats[r].attack = Cardinality(InPlay)

(***************************************************************************)
(* Claims about the ResponsiblePerson proxy (SpecProxy).                   *)
(***************************************************************************)
\* C19: drink() returns 'too young' under 18 and otherwise what the wrapped
\* Person.drink() returns, 'drinking'; drive() returns 'too young' under 16
\* and otherwise what Person.drive() returns, 'driving'; drink_and_drive()
\* returns 'dead' at every age.
C19_ProxyAnswers ==
    \A k \in 1..Len(answers) :
        LET a == answers[k]
        IN  a.result =
                CASE a.method = "drink" ->
                         IF a.age < 18 THEN PyStr("too young") ELSE PersonDrink
                  [] a.method = "drive" ->
                         IF a.age < 16 THEN PyStr("too young") ELSE PersonDrive
                  [] a.method = "drink_and_drive" -> PyStr("dead")

(***************************************************************************)
(* Claims about the tree iterator (SpecIterator).                          *)
(***************************************************************************)
\* C20: for every binary tree of up to MaxNodes Node objects, of any shape,
\* iterating the root with InOrderIterator yields every node exactly once,
\* in in-order, the sequence traverse_in_order(root) yields, and then raises
\* StopIteration.
C20_InOrder ==
    LET expected == traverse_in_order(root)
    IN  /\ Len(yielded) <= Len(expected)
        /\ yielded = SubSeq(expected, 1, Len(yielded))
        /\ stopped = "StopIteration" =>
               /\ yielded = expected
               /\ \A n \in DOMAIN root :
                      Cardinality({k \in 1..Len(yielded) : yielded[k] = n}) = 1
        /\ (stopped = "no" /\ yielded_start /\ yielded = expected) =>
               Successor(root, it_current) = NoNode

\* a tree iterated to its end that has a right child below a left child, so
\* that the iterator came back up through a right link
C20_Witness ==
    /\ stopped = "StopIteration"
    /\ Len(yielded) = MaxNodes
    /\ root[RootNode].left # NoNode
    /\ root[RootNode].right # NoNode
    /\ root[root[RootNode].left].right # NoNode
    /\ yielded # <<>>
    /\ yielded[Len(yielded)] # RootNode

(***************************************************************************)
(* Claims about the steps of parse (SpecParse).                            *)
(***************************************************************************)
\* the indices (from 0) of the tokens of the given type
IndicesOf(toks, type) == {k \in 0..(Len(toks) - 1) : At(toks, k).type = type}
Least(S) == CHOOSE k \in S : \A m \in S : k <= m

\* an operand no input contains, standing where a parenthesized group stood
Marker == LexToken("INTEGER", <<"7">>)

\* the tree with the sub-tree in the slot the marker operand was left in
InSlotOfMarker(tree, sub) ==
    [tree EXCEPT !.left = IF @ = Integer(7) THEN sub ELSE @,
                 !.right = IF @ = Integer(7) THEN sub ELSE @]

\* C21: with the first LPAREN of the token list at index i and j the index
\* of the first RPAREN at or after i (len(tokens) when there is none), the
\* sub-tree parse(tokens[i+1..j-1]) is stored in the left slot if there is no
\* left operand yet and in the right slot otherwise, and the loop goes on at
\* j+1: the tokens at i..j count at the enclosing level as one operand.
C21_LeftParen ==
    (/\ tokens.kind = "return"
     /\ parsed # Pending /\ calcResult = Pending
     /\ IndicesOf(tokens.value, "LPAREN") # {}) =>
        LET toks == tokens.value
            i == Least(IndicesOf(toks, "LPAREN"))
            closing == {k \in IndicesOf(toks, "RPAREN") : k >= i}
            j == IF closing = {} THEN Len(toks) ELSE Least(closing)
            sub == parse(Slice(toks, i + 1, j))
            enclosing == parse(Slice(toks, 0, i) \o <<Marker>> \o Slice(toks, j + 1, Len(toks)))
        IN  IF sub.kind = "raise" \/ enclosing.kind = "raise"
            THEN parsed.kind = "raise"
            ELSE parsed = Return(InSlotOfMarker(enclosing.value, sub.value))

\* '1(2)': the group is the second operand and goes to the right slot
C21_Witness ==
    /\ tokens.kind = "return" /\ parsed.kind = "return" /\ calcResult = Pending
    /\ Len(tokens.value) = 4
    /\ tokens.value[1].type = "INTEGER"
    /\ tokens.value[2].type = "LPAREN"
    /\ tokens.value[4].type = "RPAREN"
    /\ parsed.value.right = BinaryExpression("None", Integer(2), None)

\* the operator type parse stores for an operator character
TypeOf(op) == IF op = "+" THEN "ADDITION" ELSE "SUBTRACTION"

\* C22: for a flat token sequence a op1 b op2 c (three INTEGER tokens, no
\* parentheses) parse returns a BinaryExpression whose left is a, whose right
\* is c and whose operator is op2; its value is a op2 c, and b and op1 have no
\* effect.
C22_ThirdOperandOverwrites ==
    (given.form = "tokens" /\ Len(given.operands) = 3) =>
        LET a == given.operands[1]
            c == given.operands[3]
            op2 == given.operators[2]
        IN  /\ parsed # Pending =>
                parsed = Return(BinaryExpression(TypeOf(op2), Integer(a), Integer(c)))
            /\ calcResult # Pending =>
                calcResult = Return(IF op2 = "+" THEN a + c ELSE a - c)

\* 12 - 2 + 1 parsed and evaluated as 12 + 1
C22_Witness ==
    /\ given.form = "tokens"
    /\ given.operands = <<12, 2, 1>>
    /\ given.operators = <<"-", "+">>
    /\ calcResult = Return(13)

(***************************************************************************)
(* Claims about the token list of the token based calculate (SpecCalc).    *)
(***************************************************************************)
\* one token per operand and per operator of a chain, in order
RECURSIVE ChainTokens(_, _, _)
ChainTokens(operands, operators, vs) ==
    LET o == operands[Len(operands)]
        last == IF o.py = "int" THEN Token(PyStr(DecStr(o.n)), "INTEGER")
                ELSE Token(PyInt(vs[o.s]), "INTEGER")
    IN  IF Len(operands) = 1 THEN <<last>>
        ELSE ChainTokens(SubSeq(operands, 1, Len(operands) - 1),
                         SubSeq(operators, 1, Len(operators) - 1), vs)
             \o <<Token(PyStr(<<operators[Len(operators)]>>),
                        IF operators[Len(operators)] = "+" THEN "PLUS" ELSE "MINUS"),
                  last>>

\* C23: the lexing loop of the token based calculate consumes every character
\* once: for a grammar-conforming expression the token list it builds holds
\* one token per '+' or '-' and one INTEGER token per maximal digit run or
\* resolved variable, in order and nothing else, also when a multi-digit run
\* ends the input.
C23_OnePassTokens ==
    (/\ IsChain
     /\ \A k \in 1..Len(given.operands) : Resolved(given.operands[k], variables)
     /\ tokResult # Pending) =>
        TokenLoop(expression, variables, 0, <<>>) =
            [kind |-> "tokens",
             tokens |-> ChainTokens(given.operands, given.operators, variables)]

(***************************************************************************)
(* Claims about the loops (SpecLoops).                                     *)
(***************************************************************************)
\* C24: lex and both calculate implementations terminate on every finite
\* input string and parse terminates on every finite token sequence, also
\* when an LPAREN has no later RPAREN and when LPARENs are nested: every call
\* eventually returns or raises.
C24_Terminates == <>(finished # Pending)

\* parse has returned from '((1+': two nested LPARENs, neither of them closed
C24_Witness ==
    /\ running = Run("parse", <<>>,
                     <<LexToken("LPAREN", <<"(">>), LexToken("LPAREN", <<"(">>),
                       LexToken("INTEGER", <<"1">>), LexToken("PLUS", <<"+">>)>>,
                     NoVariables)
    /\ finished.kind = "return"

(***************************************************************************)
(* Claims about the calculate of interpreter-pattern.py (SpecExercise).    *)
(***************************************************************************)
\* C25: the token based calculate of interpreter-pattern.py returns a + b
\* for "a+b", a - b for "a-b" and a for "a", for all non-negative integers a
\* and b, and returns 0 on an unknown or multi-letter variable and on any
\* parsing failure.
C25_ExerciseCalculate ==
    calls # <<>> =>
        LET o == calls[1].outcome
        IN  /\ (NumericChain /\ Len(given.operands) <= 2) =>
                   o = Return(LeftFold(given.operands, given.operators, variables))
            /\ (IsChain /\ \E k \in 1..Len(given.operands) :
                               ~Resolved(given.operands[k], variables)) => o = Return(0)
            /\ ~GrammarForm(expression) => o = Return(0)

(***************************************************************************)
(* Claims about the two calculate implementations together (SpecCalc).     *)
(***************************************************************************)
\* C26: on every input string over digits, letters, '+' and '-', grammar
\* conforming or not ("1x" included), and every mapping of single letters to
\* integers, whenever the token based calculate returns a value the regex
\* based calculate returns the same value.
C26_ImplementationsAgree ==
    (/\ \A name \in DOMAIN variables : Len(name) = 1
     /\ tokResult.kind = "return"
     /\ reResult # Pending) => reResult = tokResult

(***************************************************************************)
(* Claims about the money in the bank accounts (SpecBank).                 *)
(***************************************************************************)
Total == balance["ba1"] + balance["ba2"]

\* the step is a call of undo() on a transfer that was invoked before and
\* not undone before, or a call of invoke()
InvokeOrLaterUndo ==
    \A i \in 1..Len(commands) :
        commands'[i].undone # commands[i].undone =>
            (commands[i].invoked >= 1 /\ commands[i].undone = 0)

\* C27: with two accounts at or above OVERDRAFT_LIMIT, transfers and their
\* undos conserve money: whatever MoneyTransferCommand.invoke calls are made
\* and whatever later undo calls (each command undone at most once, after its
\* own invoke, other transfers possibly invoked in between), the sum of the
\* two balances stays what it was.
C27_MoneyConserved == [][InvokeOrLaterUndo => Total' = Total]_vars

====
